---- MODULE Spec2Model ----
(***************************************************************************)
(* Model of the DMA example host program, RTL/examples/dma/sw/main.cpp.    *)
(* The host (main) is a sequential program whose position is pc; the DMA   *)
(* engine of the AFU is a second process that runs once MMIO_GO is         *)
(* written.  The AFU wrapper class (AFU.h) and config.h are not part of    *)
(* the source at hand: the wrapper's operations are modelled by their      *)
(* documented effect, and each of them may raise one of the exception      *)
(* types main catches.                                                     *)
(***************************************************************************)
EXTENDS Integers, Sequences, FiniteSets, TLC

VARIABLES
    pc,           \* position of main
    cfg,          \* config.h: [amount |-> DATA_AMOUNT, size |-> sizeof(dma_data_t)]
    test,         \* loop counter of line 55
    input,        \* address returned by afu.malloc (line 62), 0 before
    output,       \* address returned by afu.malloc (line 63), 0 before
    i,            \* loop counter of lines 71 and 99
    total_bytes,  \* line 82, an unsigned kept as [hi, lo] with value hi*256 + lo
    num_cls,      \* line 83
    errors,       \* line 98
    mem,          \* shared memory: address -> array of dma_data_t
    live,         \* addresses allocated by afu.malloc and not yet freed
    regs,         \* MMIO registers written by the host
    done,         \* MMIO_DONE, driven by the device
    devState,     \* "idle" or "busy"
    devIdx,       \* next element the DMA engine transfers
    thrown,       \* exception in flight or caught, "none" otherwise
    exitCode,     \* "none" while running, then EXIT_SUCCESS or EXIT_FAILURE
    out,          \* cout: sequence of <<test, message>>
    err,          \* cerr: sequence of messages
    trace,        \* history: main's operations on afu and on the buffers, in order
    iterStart,    \* history: length of trace when the current test began
    polls,        \* history: reads of MMIO_DONE that returned 0 in this iteration
    uaf,          \* history: main used a buffer that was not live
    failedTests   \* history: tests whose output differed from input when DONE was seen

vars == <<pc, cfg, test, input, output, i, total_bytes, num_cls, errors, mem, live,
          regs, done, devState, devIdx, thrown, exitCode, out, err, trace, iterStart,
          polls, uaf, failedTests>>

hostVars == <<pc, test, input, output, i, total_bytes, num_cls, errors, thrown,
              exitCode, out, err, trace, iterStart, polls, uaf, failedTests>>

(***************************************************************************)
(* Bounds of the model and constants of the program.                       *)
(***************************************************************************)
DATA_AMOUNT == 2
MaxVal == 1
MaxPolls == 1
NUM_TESTS == 1
CL_BYTES == 64

Vals == 0..MaxVal
Addrs == {64, 128}
ElemSizes == {1, 2, 4, 8}
Regs == {"MMIO_RD_ADDR", "MMIO_WR_ADDR", "MMIO_SIZE", "MMIO_GO"}
Exceptions == {"FPGA_BUSY", "FPGA_NOT_FOUND", "FPGA_OTHER", "runtime_error", "no_driver"}

Indices(n) == 0..(n - 1)
Arrays(n) == [Indices(n) -> Vals]

RECURSIVE Pow2(_)
Pow2(n) == IF n = 0 THEN 1 ELSE 2 * Pow2(n - 1)

(***************************************************************************)
(* Line 82: unsigned total_bytes = DATA_AMOUNT*sizeof(dma_data_t).  The    *)
(* product is formed in size_t and truncated to 32 bits.  Values are kept  *)
(* as hi*256 + lo so that nothing computed exceeds 2^31.                   *)
(***************************************************************************)
Product(amount, size) ==
    LET aH == amount \div 256
        aL == amount % 256
    IN  [hi |-> size * aH + (size * aL) \div 256, lo |-> (size * aL) % 256]

ToUnsigned(p) == [hi |-> p.hi % Pow2(24), lo |-> p.lo]

TotalBytes(amount, size) == ToUnsigned(Product(amount, size))

(***************************************************************************)
(* Line 83: (float) total_bytes.  A float has a 24 bit significand: a      *)
(* value of 2^24 or more is rounded to a multiple of 2^e, ties to even.    *)
(***************************************************************************)
FloatExp(hi) ==
    CHOOSE e \in 0..8 : hi < Pow2(16 + e) /\ (e = 0 \/ hi >= Pow2(15 + e))

ToFloat(u) ==
    LET e    == FloatExp(u.hi)
        ulp  == Pow2(e)
        r    == u.lo % ulp
        base == u.lo - r
        odd  == IF e = 8 THEN u.hi % 2 = 1 ELSE (u.lo \div ulp) % 2 = 1
        up   == e > 0 /\ (2 * r > ulp \/ (2 * r = ulp /\ odd))
        lo2  == IF up THEN base + ulp ELSE base
    IN  IF lo2 = 256 THEN [hi |-> u.hi + 1, lo |-> 0] ELSE [hi |-> u.hi, lo |-> lo2]

(* ceil(f / (float) AFU::CL_BYTES): the division by 64 is exact in float. *)
CeilDiv(f) == f.hi * (256 \div CL_BYTES) + (f.lo + CL_BYTES - 1) \div CL_BYTES

NumCls(u) == CeilDiv(ToFloat(u))

(***************************************************************************)
(* Initial state: main has not started, the device is idle.                *)
(***************************************************************************)
InitWith(c, m) ==
    /\ cfg = c
    /\ test = 0
    /\ input = 0
    /\ output = 0
    /\ i = 0
    /\ total_bytes = [hi |-> 0, lo |-> 0]
    /\ num_cls = 0
    /\ errors = 0
    /\ mem = m
    /\ live = {}
    /\ regs = [r \in Regs |-> 0]
    /\ done = 0
    /\ devState = "idle"
    /\ devIdx = 0
    /\ thrown = "none"
    /\ exitCode = "none"
    /\ out = <<>>
    /\ err = <<>>
    /\ trace = <<>>
    /\ iterStart = 0
    /\ polls = 0
    /\ uaf = FALSE
    /\ failedTests = {}

Init ==
    /\ pc = "construct"
    /\ \E s \in ElemSizes :
          InitWith([amount |-> DATA_AMOUNT, size |-> s],
                   [a \in Addrs |-> [k \in Indices(DATA_AMOUNT) |-> 0]])

Op(kind, target, val) == <<kind, target, val>>

(***************************************************************************)
(* main                                                                    *)
(***************************************************************************)
Construct ==
    /\ pc = "construct"
    /\ pc' = "loop"
    /\ UNCHANGED <<cfg, test, input, output, i, total_bytes, num_cls, errors, mem,
                   live, regs, done, devState, devIdx, thrown, exitCode, out, err,
                   trace, polls, uaf, failedTests, iterStart>>

LoopEnter ==
    /\ pc = "loop"
    /\ test < NUM_TESTS
    /\ pc' = "malloc_input"
    /\ polls' = 0
    /\ iterStart' = Len(trace)
    /\ UNCHANGED <<cfg, test, input, output, i, total_bytes, num_cls, errors, mem,
                   live, regs, done, devState, devIdx, thrown, exitCode, out, err,
                   trace, uaf, failedTests>>

ReturnSuccess ==
    /\ pc = "loop"
    /\ ~(test < NUM_TESTS)
    /\ pc' = "exit"
    /\ exitCode' = "EXIT_SUCCESS"
    /\ UNCHANGED <<cfg, test, input, output, i, total_bytes, num_cls, errors, mem,
                   live, regs, done, devState, devIdx, thrown, out, err, trace,
                   polls, uaf, failedTests, iterStart>>

(* afu.malloc returns memory that is not in use, with whatever it holds. *)
Malloc(a, content) ==
    /\ a \in Addrs \ live
    /\ content \in Arrays(cfg.amount)
    /\ live' = live \cup {a}
    /\ mem' = [mem EXCEPT ![a] = content]

MallocInput ==
    /\ pc = "malloc_input"
    /\ \E a \in Addrs, c \in Arrays(cfg.amount) :
          /\ Malloc(a, c)
          /\ input' = a
          /\ trace' = Append(trace, Op("malloc", "input", a))
    /\ pc' = "malloc_output"
    /\ UNCHANGED <<cfg, test, output, i, total_bytes, num_cls, errors, regs, done,
                   devState, devIdx, thrown, exitCode, out, err, polls, uaf,
                   failedTests, iterStart>>

MallocOutput ==
    /\ pc = "malloc_output"
    /\ \E a \in Addrs, c \in Arrays(cfg.amount) :
          /\ Malloc(a, c)
          /\ output' = a
          /\ trace' = Append(trace, Op("malloc", "output", a))
    /\ pc' = "print"
    /\ UNCHANGED <<cfg, test, input, i, total_bytes, num_cls, errors, regs, done,
                   devState, devIdx, thrown, exitCode, out, err, polls, uaf,
                   failedTests, iterStart>>

PrintHeader ==
    /\ pc = "print"
    /\ out' = out \o <<<<test, "input">>, <<test, "output">>, <<test, "Test">>>>
    /\ i' = 0
    /\ pc' = IF 0 < cfg.amount THEN "fill" ELSE "write_rd"
    /\ UNCHANGED <<cfg, test, input, output, total_bytes, num_cls, errors, mem, live,
                   regs, done, devState, devIdx, thrown, exitCode, err, trace, polls,
                   uaf, failedTests, iterStart>>

(* Mutant: output[i] = 0 is left out. *)
Fill_inputOnly ==
    /\ pc = "fill"
    /\ \E v \in Vals :
          mem' = [a \in Addrs |->
                    IF a = input THEN [mem[a] EXCEPT ![i] = v] ELSE mem[a]]
    /\ trace' = trace \o <<Op("store", "input", i), Op("store", "output", i)>>
    /\ uaf' = (uaf \/ input \notin live \/ output \notin live)
    /\ i' = i + 1
    /\ pc' = IF i + 1 < cfg.amount THEN "fill" ELSE "write_rd"
    /\ UNCHANGED <<cfg, test, input, output, total_bytes, num_cls, errors, live, regs,
                   done, devState, devIdx, thrown, exitCode, out, err, polls,
                   failedTests, iterStart>>

(* Lines 71-74, one pass of the loop: input[i] = rand(); output[i] = 0. *)
Fill ==
    /\ pc = "fill"
    /\ \E v \in Vals :
          mem' = [a \in Addrs |->
                    IF a = output THEN [mem[a] EXCEPT ![i] = 0]
                    ELSE IF a = input THEN [mem[a] EXCEPT ![i] = v]
                    ELSE mem[a]]
    /\ trace' = trace \o <<Op("store", "input", i), Op("store", "output", i)>>
    /\ uaf' = (uaf \/ input \notin live \/ output \notin live)
    /\ i' = i + 1
    /\ pc' = IF i + 1 < cfg.amount THEN "fill" ELSE "write_rd"
    /\ UNCHANGED <<cfg, test, input, output, total_bytes, num_cls, errors, live, regs,
                   done, devState, devIdx, thrown, exitCode, out, err, polls,
                   failedTests, iterStart>>

WriteRdAddr ==
    /\ pc = "write_rd"
    /\ regs' = [regs EXCEPT !["MMIO_RD_ADDR"] = input]
    /\ trace' = Append(trace, Op("write", "MMIO_RD_ADDR", input))
    /\ uaf' = (uaf \/ input \notin live)
    /\ pc' = "write_wr"
    /\ UNCHANGED <<cfg, test, input, output, i, total_bytes, num_cls, errors, mem,
                   live, done, devState, devIdx, thrown, exitCode, out, err, polls,
                   failedTests, iterStart>>

WriteWrAddr ==
    /\ pc = "write_wr"
    /\ regs' = [regs EXCEPT !["MMIO_WR_ADDR"] = output]
    /\ trace' = Append(trace, Op("write", "MMIO_WR_ADDR", output))
    /\ uaf' = (uaf \/ output \notin live)
    /\ pc' = "calc"
    /\ UNCHANGED <<cfg, test, input, output, i, total_bytes, num_cls, errors, mem,
                   live, done, devState, devIdx, thrown, exitCode, out, err, polls,
                   failedTests, iterStart>>

Calc ==
    /\ pc = "calc"
    /\ total_bytes' = TotalBytes(cfg.amount, cfg.size)
    /\ num_cls' = NumCls(total_bytes')
    /\ pc' = "write_size"
    /\ UNCHANGED <<cfg, test, input, output, i, errors, mem, live, regs, done,
                   devState, devIdx, thrown, exitCode, out, err, trace, polls, uaf,
                   failedTests, iterStart>>

(* Mutant: the write of MMIO_SIZE is left out. *)
WriteSize_skipped ==
    /\ pc = "write_size"
    /\ pc' = "write_go"
    /\ UNCHANGED <<cfg, test, input, output, i, total_bytes, num_cls, errors, mem,
                   live, regs, done, devState, devIdx, thrown, exitCode, out, err,
                   trace, polls, uaf, failedTests, iterStart>>

WriteSize ==
    /\ pc = "write_size"
    /\ regs' = [regs EXCEPT !["MMIO_SIZE"] = num_cls]
    /\ trace' = Append(trace, Op("write", "MMIO_SIZE", num_cls))
    /\ pc' = "write_go"
    /\ UNCHANGED <<cfg, test, input, output, i, total_bytes, num_cls, errors, mem,
                   live, done, devState, devIdx, thrown, exitCode, out, err, polls,
                   uaf, failedTests, iterStart>>

(* The DMA engine reacts to a write of MMIO_GO: a non-zero value starts it. *)
DevLatchGo(val) ==
    IF val # 0
    THEN devState' = "busy" /\ devIdx' = 0 /\ done' = 0
    ELSE UNCHANGED <<devState, devIdx, done>>

WriteGo ==
    /\ pc = "write_go"
    /\ regs' = [regs EXCEPT !["MMIO_GO"] = 1]
    /\ DevLatchGo(1)
    /\ trace' = Append(trace, Op("write", "MMIO_GO", 1))
    /\ pc' = "poll"
    /\ UNCHANGED <<cfg, test, input, output, i, total_bytes, num_cls, errors, mem,
                   live, thrown, exitCode, out, err, polls, uaf, failedTests, iterStart>>

(* Mutant: the loop condition is inverted, afu.read(MMIO_DONE) != 0. *)
ReadDone_inverted ==
    /\ pc = "poll"
    /\ trace' = Append(trace, Op("read", "MMIO_DONE", done))
    /\ IF done # 0
       THEN /\ polls < MaxPolls
            /\ polls' = polls + 1
            /\ pc' = "wait"
            /\ UNCHANGED <<errors, i, failedTests>>
       ELSE /\ errors' = 0
            /\ i' = 0
            /\ pc' = IF 0 < cfg.amount THEN "verify" ELSE "read_resets"
            /\ failedTests' = IF mem[output] # mem[input]
                              THEN failedTests \cup {test} ELSE failedTests
            /\ UNCHANGED polls
    /\ UNCHANGED <<cfg, test, input, output, total_bytes, num_cls, mem, live, regs,
                   done, devState, devIdx, thrown, exitCode, out, err, uaf, iterStart>>

(* Mutant: MMIO_DONE is read once and the loop is left whatever it returns. *)
ReadDone_once ==
    /\ pc = "poll"
    /\ trace' = Append(trace, Op("read", "MMIO_DONE", done))
    /\ errors' = 0
    /\ i' = 0
    /\ pc' = IF 0 < cfg.amount THEN "verify" ELSE "read_resets"
    /\ failedTests' = IF mem[output] # mem[input]
                      THEN failedTests \cup {test} ELSE failedTests
    /\ UNCHANGED <<cfg, test, input, output, total_bytes, num_cls, mem, live, regs,
                   done, devState, devIdx, thrown, exitCode, out, err, polls, uaf,
                   iterStart>>

(* Line 90, one evaluation of the loop condition afu.read(MMIO_DONE) == 0;  *)
(* on leaving the loop, line 98 and the initialisation of line 99.          *)
ReadDone ==
    /\ pc = "poll"
    /\ trace' = Append(trace, Op("read", "MMIO_DONE", done))
    /\ IF done = 0
       THEN /\ polls < MaxPolls
            /\ polls' = polls + 1
            /\ pc' = "wait"
            /\ UNCHANGED <<errors, i, failedTests>>
       ELSE /\ errors' = 0
            /\ i' = 0
            /\ pc' = IF 0 < cfg.amount THEN "verify" ELSE "read_resets"
            /\ failedTests' = IF mem[output] # mem[input]
                              THEN failedTests \cup {test} ELSE failedTests
            /\ UNCHANGED polls
    /\ UNCHANGED <<cfg, test, input, output, total_bytes, num_cls, mem, live, regs,
                   done, devState, devIdx, thrown, exitCode, out, err, uaf, iterStart>>

(* Lines 91-92: the body of the wait loop sleeps or does nothing. *)
WaitBody ==
    /\ pc = "wait"
    /\ pc' = "poll"
    /\ UNCHANGED <<cfg, test, input, output, i, total_bytes, num_cls, errors, mem,
                   live, regs, done, devState, devIdx, thrown, exitCode, out, err,
                   trace, polls, uaf, failedTests, iterStart>>

(* Mutant: errors is set to 1 on a mismatch instead of incremented. *)
Verify_flag ==
    /\ pc = "verify"
    /\ errors' = IF mem[output][i] # mem[input][i] THEN 1 ELSE errors
    /\ trace' = trace \o <<Op("load", "output", i), Op("load", "input", i)>>
    /\ uaf' = (uaf \/ input \notin live \/ output \notin live)
    /\ i' = i + 1
    /\ pc' = IF i + 1 < cfg.amount THEN "verify" ELSE "read_resets"
    /\ UNCHANGED <<cfg, test, input, output, total_bytes, num_cls, mem, live, regs,
                   done, devState, devIdx, thrown, exitCode, out, err, polls,
                   failedTests, iterStart>>

(* Lines 99-103, one pass of the loop. *)
Verify ==
    /\ pc = "verify"
    /\ errors' = IF mem[output][i] # mem[input][i] THEN errors + 1 ELSE errors
    /\ trace' = trace \o <<Op("load", "output", i), Op("load", "input", i)>>
    /\ uaf' = (uaf \/ input \notin live \/ output \notin live)
    /\ i' = i + 1
    /\ pc' = IF i + 1 < cfg.amount THEN "verify" ELSE "read_resets"
    /\ UNCHANGED <<cfg, test, input, output, total_bytes, num_cls, mem, live, regs,
                   done, devState, devIdx, thrown, exitCode, out, err, polls,
                   failedTests, iterStart>>

(* Line 105: cout << "# of resets: " << afu.read(0x0060). *)
ReadResets ==
    /\ pc = "read_resets"
    /\ trace' = Append(trace, Op("read", "0x0060", 0))
    /\ out' = Append(out, <<test, "resets">>)
    /\ pc' = "report"
    /\ UNCHANGED <<cfg, test, input, output, i, total_bytes, num_cls, errors, mem,
                   live, regs, done, devState, devIdx, thrown, exitCode, err, polls,
                   uaf, failedTests, iterStart>>

(* Lines 108-113. *)
Report ==
    /\ pc = "report"
    /\ out' = out \o (IF errors > 0 THEN <<<<test, "FAILURE">>>> ELSE <<>>)
                  \o <<<<test, "Successful">>>>
    /\ pc' = "free_input"
    /\ UNCHANGED <<cfg, test, input, output, i, total_bytes, num_cls, errors, mem,
                   live, regs, done, devState, devIdx, thrown, exitCode, err, trace,
                   polls, uaf, failedTests, iterStart>>

FreeInput ==
    /\ pc = "free_input"
    /\ live' = live \ {input}
    /\ trace' = Append(trace, Op("free", "input", input))
    /\ uaf' = (uaf \/ input \notin live)
    /\ pc' = "free_output"
    /\ UNCHANGED <<cfg, test, input, output, i, total_bytes, num_cls, errors, mem,
                   regs, done, devState, devIdx, thrown, exitCode, out, err, polls,
                   failedTests, iterStart>>

(* Mutant: input is freed a second time instead of output. *)
FreeOutput_inputAgain ==
    /\ pc = "free_output"
    /\ live' = live \ {input}
    /\ trace' = Append(trace, Op("free", "input", input))
    /\ uaf' = (uaf \/ input \notin live)
    /\ test' = test + 1
    /\ pc' = "loop"
    /\ UNCHANGED <<cfg, input, output, i, total_bytes, num_cls, errors, mem, regs,
                   done, devState, devIdx, thrown, exitCode, out, err, polls,
                   failedTests, iterStart>>

(* Line 116, then test++ of line 55. *)
FreeOutput ==
    /\ pc = "free_output"
    /\ live' = live \ {output}
    /\ trace' = Append(trace, Op("free", "output", output))
    /\ uaf' = (uaf \/ output \notin live)
    /\ test' = test + 1
    /\ pc' = "loop"
    /\ UNCHANGED <<cfg, input, output, i, total_bytes, num_cls, errors, mem, regs,
                   done, devState, devIdx, thrown, exitCode, out, err, polls,
                   failedTests, iterStart>>

(* Positions of main at which the next statement is a wrapper operation. *)
WrapperPcs ==
    {"construct", "malloc_input", "malloc_output", "write_rd", "write_wr",
     "write_size", "write_go", "poll", "read_resets", "free_input", "free_output"}

(* The wrapper operation about to run raises instead of taking effect. *)
Raise ==
    /\ pc \in WrapperPcs
    /\ \E e \in Exceptions : thrown' = e
    /\ pc' = "catch"
    /\ UNCHANGED <<cfg, test, input, output, i, total_bytes, num_cls, errors, mem,
                   live, regs, done, devState, devIdx, exitCode, out, err, trace,
                   polls, uaf, failedTests, iterStart>>

(* Lines 123-143: the message each handler prints. *)
ErrMsg(e) ==
    CASE e = "FPGA_BUSY" -> "ERROR: All FPGAs busy."
      [] e = "FPGA_NOT_FOUND" -> "ERROR: FPGA with accelerator not found."
      [] e = "FPGA_OTHER" -> "ERROR: fpgaErrStr"
      [] e = "runtime_error" -> "what"
      [] e = "no_driver" -> "ERROR: No FPGA driver found."

(* Mutant: the handler falls through to a successful return. *)
Catch_success ==
    /\ pc = "catch"
    /\ err' = Append(err, ErrMsg(thrown))
    /\ exitCode' = "EXIT_SUCCESS"
    /\ pc' = "exit"
    /\ UNCHANGED <<cfg, test, input, output, i, total_bytes, num_cls, errors, mem,
                   live, regs, done, devState, devIdx, thrown, out, trace, polls,
                   uaf, failedTests, iterStart>>

(* Lines 123-145: the handler prints its message, main returns EXIT_FAILURE. *)
Catch ==
    /\ pc = "catch"
    /\ err' = Append(err, ErrMsg(thrown))
    /\ exitCode' = "EXIT_FAILURE"
    /\ pc' = "exit"
    /\ UNCHANGED <<cfg, test, input, output, i, total_bytes, num_cls, errors, mem,
                   live, regs, done, devState, devIdx, thrown, out, trace, polls,
                   uaf, failedTests, iterStart>>

Host ==
    \/ Construct
    \/ LoopEnter
    \/ ReturnSuccess
    \/ MallocInput
    \/ MallocOutput
    \/ PrintHeader
    \/ Fill
    \/ WriteRdAddr
    \/ WriteWrAddr
    \/ Calc
    \/ WriteSize
    \/ WriteGo
    \/ ReadDone
    \/ WaitBody
    \/ Verify
    \/ ReadResets
    \/ Report
    \/ FreeInput
    \/ FreeOutput
    \/ Raise
    \/ Catch

(***************************************************************************)
(* The DMA engine: transfers the array element by element from the address *)
(* in MMIO_RD_ADDR to the address in MMIO_WR_ADDR, then raises MMIO_DONE.  *)
(* A faulty engine may store any value.                                    *)
(***************************************************************************)
DevCopy ==
    /\ devState = "busy"
    /\ devIdx < cfg.amount
    /\ regs["MMIO_RD_ADDR"] \in Addrs
    /\ regs["MMIO_WR_ADDR"] \in Addrs
    /\ \E v \in Vals :
          mem' = [mem EXCEPT ![regs["MMIO_WR_ADDR"]][devIdx] = v]
    /\ devIdx' = devIdx + 1
    /\ UNCHANGED <<cfg, regs, done, devState, hostVars, live>>

DevFinish ==
    /\ devState = "busy"
    /\ ~(/\ devIdx < cfg.amount
          /\ regs["MMIO_RD_ADDR"] \in Addrs
          /\ regs["MMIO_WR_ADDR"] \in Addrs)
    /\ done' = 1
    /\ devState' = "idle"
    /\ UNCHANGED <<cfg, regs, mem, devIdx, hostVars, live>>

Device == DevCopy \/ DevFinish

Next == Host \/ Device

Spec == Init /\ [][Next]_vars

(* main runs to completion and the engine keeps working once started. *)
LiveSpec == Init /\ [][Next]_vars /\ WF_vars(Host) /\ WF_vars(Device)

(***************************************************************************)
(* Lines 82-83 on their own, for array sizes up to the width of unsigned.  *)
(***************************************************************************)
ClsAmounts ==
    (0..24) \cup {16777215, 16777216, 16777217, 16777218, 16777279, 16777281,
                  33554433, 67108865, 268435457, 536870912, 536870913,
                  1073741824, 1073741825, 2147483647}

InitCls ==
    /\ pc = "calc"
    /\ \E a \in ClsAmounts, s \in ElemSizes :
          InitWith([amount |-> a, size |-> s], [x \in Addrs |-> <<>>])

NextCls == Calc

SpecCls == InitCls /\ [][NextCls]_vars

(***************************************************************************)
(* Properties                                                              *)
(***************************************************************************)
IsPrefix(a, b) == Len(a) <= Len(b) /\ a = SubSeq(b, 1, Len(a))

(* The operations of the test in progress (or just completed). *)
CurIter == SubSeq(trace, iterStart + 1, Len(trace))

(* An operation without the values that differ from run to run. *)
Norm(op) ==
    IF op[1] = "read" /\ op[2] = "MMIO_DONE" THEN <<op[1], op[2], IF op[3] = 0 THEN 0 ELSE 1>>
    ELSE IF op[1] \in {"store", "load"} \/ op[2] = "MMIO_GO" THEN op
    ELSE <<op[1], op[2], 0>>

NormSeq(t) == [k \in 1..Len(t) |-> Norm(t[k])]

RECURSIVE ForEach(_, _, _, _)
ForEach(kind, first, second, k) ==
    IF k >= cfg.amount THEN <<>>
    ELSE <<Op(kind, first, k), Op(kind, second, k)>> \o ForEach(kind, first, second, k + 1)

(* One test with zeros reads of MMIO_DONE that return 0; between is what  *)
(* main does after the comparison and before the frees.                   *)
TestOps(zeros, between) ==
    <<Op("malloc", "input", 0), Op("malloc", "output", 0)>>
    \o ForEach("store", "input", "output", 0)
    \o <<Op("write", "MMIO_RD_ADDR", 0), Op("write", "MMIO_WR_ADDR", 0),
         Op("write", "MMIO_SIZE", 0), Op("write", "MMIO_GO", 1)>>
    \o [k \in 1..zeros |-> Op("read", "MMIO_DONE", 0)]
    \o <<Op("read", "MMIO_DONE", 1)>>
    \o ForEach("load", "output", "input", 0)
    \o between
    \o <<Op("free", "input", 0), Op("free", "output", 0)>>

TestCompleted == test > 0 /\ pc \in {"loop", "exit"} /\ thrown = "none"

InOrder(between) ==
    /\ IsPrefix(NormSeq(CurIter), TestOps(polls, between))
    /\ TestCompleted => NormSeq(CurIter) = TestOps(polls, between)

\* C1 as stated: in every test the operations of main are, in this order and
\* each once, malloc input, malloc output, the fill, the writes of MMIO_RD_ADDR,
\* MMIO_WR_ADDR, MMIO_SIZE, MMIO_GO = 1, reads of MMIO_DONE until non-zero, the
\* comparison, free input, free output, and nothing else.
C1_OrderAsClaimed == InOrder(<<>>)

\* C1 amended: the same order, with one read of register 0x0060 between the
\* comparison and the frees.
C1_OrderWithResetRead == InOrder(<<Op("read", "0x0060", 0)>>)

C1_Witness == TestCompleted /\ polls > 0 /\ Len(CurIter) > 0

\* C2: once a wrapper operation has raised, main performs no further operation
\* on afu or the buffers and starts no later test, prints exactly one error
\* message, and exits with EXIT_FAILURE, never with EXIT_SUCCESS.
Aborted ==
    thrown # "none" =>
        /\ exitCode # "EXIT_SUCCESS"
        /\ Len(err) <= 1
        /\ pc \in {"catch", "exit"}
        /\ pc = "exit" => (exitCode = "EXIT_FAILURE" /\ Len(err) = 1)

NothingAfterRaise ==
    thrown # "none" =>
        /\ trace' = trace /\ regs' = regs /\ live' = live
        /\ test' = test /\ out' = out /\ thrown' = thrown

C2_AbortOnException == []Aborted /\ [][NothingAfterRaise]_vars

C2_Witness ==
    /\ pc = "exit" /\ thrown = "runtime_error" /\ exitCode = "EXIT_FAILURE"
    /\ Len(trace) > 4

\* C3: main exits with EXIT_SUCCESS only if in every test the output buffer
\* equalled the input buffer when MMIO_DONE was observed non-zero.
C3_SuccessOnlyIfValid == exitCode = "EXIT_SUCCESS" => failedTests = {}

\* C4: main leaves the wait loop only on a read of MMIO_DONE that returns
\* non-zero (or on an exception); with a device that raises MMIO_DONE and
\* keeps it, main terminates.
PollStep ==
    /\ pc = "poll" =>
          \/ pc' = "poll"
          \/ pc' = "wait" /\ done = 0
          \/ pc' \in {"verify", "read_resets"} /\ done # 0
          \/ pc' = "catch"
    /\ pc = "wait" => pc' \in {"wait", "poll"}

C4_BusyPoll == [][PollStep]_vars /\ <>(pc = "exit")

C4_Witness == pc = "exit" /\ exitCode = "EXIT_SUCCESS" /\ polls > 0

Count(t, kind, target) ==
    Cardinality({k \in 1..Len(t) : t[k][1] = kind /\ t[k][2] = target})

C6_ConfigAtGo ==
    pc = "write_go" =>
        /\ regs["MMIO_RD_ADDR"] = input
        /\ regs["MMIO_WR_ADDR"] = output
        /\ regs["MMIO_SIZE"] = NumCls(TotalBytes(cfg.amount, cfg.size))
        /\ {input, output} \subseteq live
        /\ input # output
        /\ \A k \in Indices(cfg.amount) : mem[output][k] = 0

C6_Witness == pc = "poll" /\ regs["MMIO_GO"] = 1 /\ \E k \in Indices(cfg.amount) : mem[input][k] # 0

(* n cache lines cover the array of p bytes: n * CL_BYTES >= p. *)
Covers(n, p) ==
    LET per == 256 \div CL_BYTES
    IN  \/ n \div per > p.hi
        \/ n \div per = p.hi /\ (n % per) * CL_BYTES >= p.lo

\* C7: the value written to MMIO_SIZE is the smallest n with
\* n * CL_BYTES >= DATA_AMOUNT * sizeof(dma_data_t), for every array size.
C7_SmallestCover ==
    pc = "write_size" =>
        LET p == Product(cfg.amount, cfg.size)
        IN  /\ Covers(num_cls, p)
            /\ num_cls = 0 \/ ~Covers(num_cls - 1, p)

Mismatches == {k \in Indices(cfg.amount) : mem[output][k] # mem[input][k]}

\* C8: after the verification loop errors is the number of indices at which
\* output differs from input, and the loop modifies neither buffer.
Counted ==
    pc \in {"read_resets", "report", "free_input"} => errors = Cardinality(Mismatches)

C8_ErrorCount == []Counted /\ [][pc = "verify" => mem' = mem]_vars

C8_Witness == pc = "report" /\ errors = 1 /\ cfg.amount > 1

Printed(msg) == \E k \in 1..Len(out) : out[k] = <<test, msg>>

\* C9: "DMA Test Successful!!!" is printed only if errors is 0, the FAILURE
\* message if and only if errors > 0, and never both for one test.
C9_Messages ==
    pc \in {"free_input", "free_output"} =>
        /\ Printed("Successful") => errors = 0
        /\ Printed("FAILURE") <=> errors > 0
        /\ ~(Printed("Successful") /\ Printed("FAILURE"))

\* C10: between the write of MMIO_GO and the first non-zero read of MMIO_DONE
\* the host only reads MMIO_DONE: it touches no buffer element, frees nothing
\* and rewrites no register; the engine is never busy while the host compares.
EngineQuiet ==
    /\ devState = "busy" => pc \in {"poll", "wait", "catch", "exit"}
    /\ pc \in {"verify", "read_resets", "report"} => (done # 0 /\ devIdx = cfg.amount)

WindowStep ==
    pc \in {"poll", "wait"} =>
        /\ regs' = regs /\ live' = live /\ uaf' = uaf
        /\ \/ trace' = trace
           \/ trace' = Append(trace, Op("read", "MMIO_DONE", done))
        /\ mem' # mem => (devState = "busy" /\ devIdx' = devIdx + 1 /\ trace' = trace)

C10_NoRace == []EngineQuiet /\ [][WindowStep]_vars

C10_Witness == pc = "verify" /\ i = 1 /\ polls > 0 /\ mem[output] # [k \in Indices(cfg.amount) |-> 0]
====
